---- MODULE Spec2Model ----
(***************************************************************************)
(* ShortsAI: the client-side generation pipeline of src/src/App.tsx and    *)
(* the generation client of src/unnamed/part_000 (services/gemini).        *)
(*                                                                         *)
(* The React component App is modelled as a state machine.  Its useState   *)
(* cells are the variables query .. isYoutubeConnected; the two            *)
(* localStorage keys are shorts_ai_state and ls_isYoutubeConnected.  An    *)
(* action is one event-loop task: a DOM event handler, or the continuation *)
(* of an async handler after an awaited backend call settles.  All         *)
(* setState calls of one task are committed together (React 18 automatic   *)
(* batching), and the effects whose dependencies changed run as part of    *)
(* that commit: the persist effect, the connection-flag effect and the     *)
(* object-URL cleanup effect.                                              *)
(*                                                                         *)
(* JS null is the empty tuple Null; a non-null value v is Some(v) for the  *)
(* cells whose type is T | null.  JS undefined inside a parsed script is   *)
(* the marker UNDEF.                                                       *)
(***************************************************************************)
EXTENDS Integers, Sequences, FiniteSets, Bags, TLC

VARIABLES
    phase,                  \* "unmounted" | "restoring" | "running"
    query, loading, step, productInfo, script,
    audioUrl, imageUrl, error, isYoutubeConnected,
    pending,                \* state updates queued by the mount effects
    shorts_ai_state,        \* localStorage['shorts_ai_state']: Null or Some(snapshot)
    ls_isYoutubeConnected,  \* localStorage['isYoutubeConnected']: Null or Some(text)
    searchCalls,            \* bag of handleSearch invocations awaiting a backend call
    assetCalls,             \* bag of handleGenerateAssets invocations with a generator pending
    live,                   \* blob: object URLs created and not yet revoked
    lastOp                  \* history: <<handler, outcome>> of the last task that
                            \* reset, settled a transition or took the signal
                            \* (a resolved handleGenerateAssets adds what the
                            \* speech and the image generator returned, a reset
                            \* the stage it was made from and whether it came
                            \* right after the authorization signal);
                            \* <<"other", "">> after any other task

\* The generation client (services/gemini) and the bundle export, which the
\* specifications ServiceSpec and BundleSpec below exercise on their own; the
\* component's specification leaves these four as they are.
VARIABLES
    GEMINI_API_KEY,         \* process.env.GEMINI_API_KEY: Null or Some(text)
    requests,               \* number of ai.models.generateContent calls made
    returned,               \* how the last call of a client operation ended
    zip                     \* the JSZip archive of the last handleDownloadAll

appVars == <<phase, query, loading, step, productInfo, script, audioUrl, imageUrl,
             error, isYoutubeConnected, pending, shorts_ai_state,
             ls_isYoutubeConnected, searchCalls, assetCalls, live, lastOp>>
serviceVars == <<GEMINI_API_KEY, requests, returned>>
vars == <<appVars, serviceVars, zip>>

(***************************************************************************)
(* Bounds of the model.                                                    *)
(***************************************************************************)
\* handler invocations awaiting a backend call at one time
MaxCalls == 2
\* object URLs alive at one time
MaxUrls == 1
\* backend requests the generation client makes in one run of ServiceSpec
MaxRequests == 3
\* groups of four base64 characters in an inline audio payload
MaxQuads == 2

(***************************************************************************)
(* Values.                                                                 *)
(***************************************************************************)
Null == << >>
Some(v) == <<v>>
UNDEF == "<undefined>"

Queries == {"Test Widget"}
Infos == {"Widget is great"}

GoodScript == [hook |-> "Amazing!", body |-> "It works.", cta |-> "Buy now!"]
NoCtaScript == [hook |-> "Amazing!", body |-> "It works.", cta |-> UNDEF]
\* what JSON.parse(response.text) can return without throwing
ParsedScripts == {Null, Some(GoodScript), Some(NoCtaScript)}
\* err.message of an exception thrown by a backend call
ThrownMessages == {"", "Backend failure"}

NotFoundMessage == "Could not find product information. Please try a different search term."
ScriptFailedMessage == "Failed to generate script."
DefaultMessage == "An unexpected error occurred during search. Please check your API key and connection."

\* JS String(v) on a script field
String(v) == IF v = UNDEF THEN "undefined" ELSE v
\* JS a || b on text
OrElse(a, b) == IF a = "" \/ a = UNDEF THEN b ELSE a
BoolText(b) == IF b THEN "true" ELSE "false"

\* the pending invocations are kept as bags: two invocations at the same point
\* with the same data are interchangeable
Add(b, c) == b (+) SetToBag({c})
Remove(b, c) == b (-) SetToBag({c})
InFlight == BagCardinality(searchCalls) + BagCardinality(assetCalls)

\* how a call of a client operation ended: rejected with err.message =
\* message, or resolved with value (Null for JS null / undefined); for a
\* returned object URL, blob is the content of the Blob behind it and payload
\* the inline data it was made from
Rejected(op, message) ==
    [op |-> op, threw |-> TRUE, message |-> message, value |-> Null,
     blob |-> << >>, payload |-> << >>]
Resolved(op, value) ==
    [op |-> op, threw |-> FALSE, message |-> "", value |-> value,
     blob |-> << >>, payload |-> << >>]
NotCalled == Resolved("", Null)

BlobUrl(id) == [scheme |-> "blob", id |-> id]
DataUrl == [scheme |-> "data", id |-> 0]

(***************************************************************************)
(* The component's state cells as one record, and their initial values     *)
(* (useState initialisers).                                                *)
(***************************************************************************)
Cur ==
    [query |-> query, loading |-> loading, step |-> step,
     productInfo |-> productInfo, script |-> script, audioUrl |-> audioUrl,
     imageUrl |-> imageUrl, error |-> error,
     isYoutubeConnected |-> isYoutubeConnected]

InitialState(flagStore) ==
    [query |-> "", loading |-> FALSE, step |-> "search", productInfo |-> "",
     script |-> Null, audioUrl |-> Null, imageUrl |-> Null, error |-> Null,
     isYoutubeConnected |-> (flagStore = Some("true"))]

(***************************************************************************)
(* Effects.  Each takes the state n being committed and the value the      *)
(* store (or the set of live object URLs) has when the effect runs.        *)
(***************************************************************************)
\* the object the persist effect serialises
Snapshot(n) ==
    [query |-> OrElse(n.query, ""),
     step |-> OrElse(n.step, "search"),
     productInfo |-> OrElse(n.productInfo, ""),
     script |-> IF n.script # Null
                THEN Some([hook |-> String(n.script[1].hook),
                           body |-> String(n.script[1].body),
                           cta |-> String(n.script[1].cta)])
                ELSE Null]

\* useEffect(..., [query, step, productInfo, script]); newScript: setScript was
\* given a newly parsed object, which differs from the old one by reference
PersistEffect(n, newScript, store) ==
    IF newScript
       \/ <<n.query, n.step, n.productInfo, n.script>>
            # <<query, step, productInfo, script>>
    THEN Some(Snapshot(n))
    ELSE store

\* useEffect(..., [isYoutubeConnected])
ConnectionEffect(n, flagStore) ==
    IF n.isYoutubeConnected # isYoutubeConnected
    THEN Some(BoolText(n.isYoutubeConnected))
    ELSE flagStore

\* the blob: URLs among the two cells, as the cleanup closure sees them
BlobIds(audio, image) ==
    {c[1].id : c \in {x \in {audio, image} : x # Null /\ x[1].scheme = "blob"}}

\* useEffect(() => () => revoke..., [audioUrl, imageUrl]): the cleanup of the
\* previous render runs when either cell changes
CleanupEffect(n, liveNow) ==
    IF <<n.audioUrl, n.imageUrl>> # <<audioUrl, imageUrl>>
    THEN liveNow \ BlobIds(audioUrl, imageUrl)
    ELSE liveNow

\* one render commit: the cells take the values of n and the effects run
Commit(n, newScript, store, liveNow) ==
    /\ query' = n.query
    /\ loading' = n.loading
    /\ step' = n.step
    /\ productInfo' = n.productInfo
    /\ script' = n.script
    /\ audioUrl' = n.audioUrl
    /\ imageUrl' = n.imageUrl
    /\ error' = n.error
    /\ isYoutubeConnected' = n.isYoutubeConnected
    /\ shorts_ai_state' = PersistEffect(n, newScript, store)
    /\ ls_isYoutubeConnected' = ConnectionEffect(n, ls_isYoutubeConnected)
    /\ live' = CleanupEffect(n, liveNow)

(***************************************************************************)
(* Start-up.                                                               *)
(***************************************************************************)
Init ==
    /\ phase = "unmounted"
    /\ query = "" /\ loading = FALSE /\ step = "search" /\ productInfo = ""
    /\ script = Null /\ audioUrl = Null /\ imageUrl = Null /\ error = Null
    /\ isYoutubeConnected = FALSE
    /\ pending = InitialState(Null)
    /\ shorts_ai_state = Null
    /\ ls_isYoutubeConnected = Null
    /\ searchCalls = EmptyBag
    /\ assetCalls = EmptyBag
    /\ live = {}
    /\ lastOp = <<"init", "">>
    /\ GEMINI_API_KEY = Some("secret")
    /\ requests = 0
    /\ returned = NotCalled
    /\ zip = Null

\* mutation of Restored: the setScript(state.script || null) call is missing
RestoredWithoutScript(base, s) ==
    [base EXCEPT !.query = OrElse(s.query, ""),
                 !.step = OrElse(s.step, "search"),
                 !.productInfo = OrElse(s.productInfo, "")]

\* what the restore effect queues from a stored snapshot s
Restored(base, s) ==
    [base EXCEPT !.query = OrElse(s.query, ""),
                 !.step = OrElse(s.step, "search"),
                 !.productInfo = OrElse(s.productInfo, ""),
                 !.script = s.script]

\* First render and its effects, in declaration order: the restore effect
\* reads the snapshot and queues the setState calls (and handles the
\* youtube_success URL flag), the persist effect then writes the first
\* render's values, and the connection effect writes the first render's flag.
Mount(urlFlag) ==
    /\ phase = "unmounted"
    /\ LET first == InitialState(ls_isYoutubeConnected)
           restored == IF shorts_ai_state # Null
                       THEN Restored(first, shorts_ai_state[1])
                       ELSE first
       IN  /\ pending' = IF urlFlag
                         THEN [restored EXCEPT !.isYoutubeConnected = TRUE]
                         ELSE restored
           /\ query' = first.query
           /\ loading' = first.loading
           /\ step' = first.step
           /\ productInfo' = first.productInfo
           /\ script' = first.script
           /\ audioUrl' = first.audioUrl
           /\ imageUrl' = first.imageUrl
           /\ error' = first.error
           /\ isYoutubeConnected' = first.isYoutubeConnected
           /\ shorts_ai_state' = Some(Snapshot(first))
           /\ ls_isYoutubeConnected' = Some(BoolText(first.isYoutubeConnected))
    /\ phase' = "restoring"
    /\ lastOp' = <<"mount", "effects">>
    /\ UNCHANGED <<searchCalls, assetCalls, live>>
    /\ UNCHANGED <<serviceVars, zip>>

\* The re-render the restore effect asked for.
MountCommit ==
    /\ phase = "restoring"
    /\ Commit(pending, pending.script # Null, shorts_ai_state, live)
    /\ phase' = "running"
    /\ pending' = InitialState(Null)
    /\ lastOp' = <<"mount", "restored">>
    /\ UNCHANGED <<searchCalls, assetCalls>>
    /\ UNCHANGED <<serviceVars, zip>>

\* The page is closed or reloaded: the component's state, its pending calls and
\* the document's object URLs are gone; localStorage stays.
Reload ==
    /\ phase # "unmounted"
    /\ phase' = "unmounted"
    /\ query' = "" /\ loading' = FALSE /\ step' = "search" /\ productInfo' = ""
    /\ script' = Null /\ audioUrl' = Null /\ imageUrl' = Null /\ error' = Null
    /\ isYoutubeConnected' = FALSE
    /\ pending' = InitialState(Null)
    /\ searchCalls' = EmptyBag
    /\ assetCalls' = EmptyBag
    /\ live' = {}
    /\ lastOp' = <<"reload", "">>
    /\ UNCHANGED <<shorts_ai_state, ls_isYoutubeConnected>>
    /\ UNCHANGED <<serviceVars, zip>>

(***************************************************************************)
(* The search stage.                                                       *)
(***************************************************************************)
\* <input onChange={(e) => setQuery(e.target.value)}>, rendered in the search stage
SetQuery(q) ==
    /\ phase = "running"
    /\ step = "search"
    /\ q # query
    /\ Commit([Cur EXCEPT !.query = q], FALSE, shorts_ai_state, live)
    /\ lastOp' = <<"other", "">>
    /\ UNCHANGED <<phase, pending, searchCalls, assetCalls>>
    /\ UNCHANGED <<serviceVars, zip>>

\* handleSearch up to its first await.  The Enter key calls it whatever loading
\* is (the Generate button alone is disabled while loading), so calls overlap.
HandleSearch ==
    /\ phase = "running"
    /\ step = "search"
    /\ query # ""
    /\ InFlight < MaxCalls
    /\ Commit([Cur EXCEPT !.loading = TRUE, !.error = Null], FALSE,
              shorts_ai_state, live)
    /\ searchCalls' = Add(searchCalls, [pc |-> "searchProduct", info |-> ""])
    /\ lastOp' = <<"other", "">>
    /\ UNCHANGED <<phase, pending, assetCalls>>
    /\ UNCHANGED <<serviceVars, zip>>

\* mutation of SearchCatch: setError(err.message), without the default text
SearchCatchWithoutDefault(message) ==
    [Cur EXCEPT !.error = Some(message), !.loading = FALSE]

\* catch (err) { setError(err.message || default) } finally { setLoading(false) }
SearchCatch(message) ==
    [Cur EXCEPT !.error = Some(OrElse(message, DefaultMessage)),
                !.loading = FALSE]

\* mutation of SearchProductSettles: the if (!info) throw ... check is missing
SearchProductSettlesWithoutCheck(c, thrown, message, info) ==
    /\ phase = "running"
    /\ BagIn(c, searchCalls)
    /\ c.pc = "searchProduct"
    /\ IF thrown
       THEN /\ Commit(SearchCatch(message), FALSE, shorts_ai_state, live)
            /\ searchCalls' = Remove(searchCalls, c)
            /\ lastOp' = <<"handleSearch", "catch">>
       ELSE /\ Commit([Cur EXCEPT !.productInfo = info], FALSE,
                      shorts_ai_state, live)
            /\ searchCalls' = Add(Remove(searchCalls, c),
                                  [pc |-> "generateScript", info |-> info])
            /\ lastOp' = <<"other", "">>
    /\ UNCHANGED <<phase, pending, assetCalls>>
    /\ UNCHANGED <<serviceVars, zip>>

\* searchProduct settles for call c: info is response.text ("" when there is
\* none), thrown says the call rejected with err.message = message
SearchProductSettles(c, thrown, message, info) ==
    /\ phase = "running"
    /\ BagIn(c, searchCalls)
    /\ c.pc = "searchProduct"
    /\ IF thrown \/ info = ""
       THEN /\ Commit(SearchCatch(IF thrown THEN message ELSE NotFoundMessage),
                      FALSE, shorts_ai_state, live)
            /\ searchCalls' = Remove(searchCalls, c)
            /\ lastOp' = <<"handleSearch", "catch">>
       ELSE /\ Commit([Cur EXCEPT !.productInfo = info], FALSE,
                      shorts_ai_state, live)
            /\ searchCalls' = Add(Remove(searchCalls, c),
                                  [pc |-> "generateScript", info |-> info])
            /\ lastOp' = <<"other", "">>
    /\ UNCHANGED <<phase, pending, assetCalls>>
    /\ UNCHANGED <<serviceVars, zip>>

\* mutation of ScriptAccepted: the setScript(generatedScript) call is missing
ScriptAcceptedWithoutScript(parsed) ==
    [Cur EXCEPT !.step = "script", !.loading = FALSE]

\* what handleSearch commits when generateScript resolved with parsed
ScriptAccepted(parsed) ==
    [Cur EXCEPT !.script = parsed, !.step = "script", !.loading = FALSE]

\* generateScript settles for call c: parsed is JSON.parse(response.text)
GenerateScriptSettles(c, thrown, message, parsed) ==
    /\ phase = "running"
    /\ BagIn(c, searchCalls)
    /\ c.pc = "generateScript"
    /\ IF thrown \/ parsed = Null
       THEN /\ Commit(SearchCatch(IF thrown THEN message ELSE ScriptFailedMessage),
                      FALSE, shorts_ai_state, live)
            /\ lastOp' = <<"handleSearch", "catch">>
       ELSE /\ Commit(ScriptAccepted(parsed), TRUE, shorts_ai_state, live)
            /\ lastOp' = <<"handleSearch", "script">>
    /\ searchCalls' = Remove(searchCalls, c)
    /\ UNCHANGED <<phase, pending, assetCalls>>
    /\ UNCHANGED <<serviceVars, zip>>

(***************************************************************************)
(* The script stage: handleGenerateAssets and its two concurrent calls.    *)
(***************************************************************************)
GeneratorOutcomes == {"throws", "nothing", "payload"}

\* handleGenerateAssets up to its await: both generators are called, then
\* Promise.all of the two is awaited.  The button is rendered in the script
\* stage when script is set, and disabled while loading.
HandleGenerateAssets ==
    /\ phase = "running"
    /\ step = "script"
    /\ script # Null
    /\ ~loading
    /\ InFlight < MaxCalls
    /\ Commit([Cur EXCEPT !.loading = TRUE], FALSE, shorts_ai_state, live)
    /\ assetCalls' = Add(assetCalls,
                         [audio |-> "pending", audioResult |-> Null,
                          image |-> "pending", imageResult |-> Null,
                          settled |-> FALSE])
    /\ lastOp' = <<"other", "">>
    /\ UNCHANGED <<phase, pending, searchCalls>>
    /\ UNCHANGED <<serviceVars, zip>>

\* URL.createObjectURL: a URL no live object has
FreshUrl == CHOOSE u \in (1..MaxUrls) \ live : \A v \in (1..MaxUrls) \ live : u <= v

\* the call record after generator which has settled with outcome
Settled(c, which, outcome, url) ==
    IF which = "audio"
    THEN [c EXCEPT !.audio = IF outcome = "throws" THEN "failed" ELSE "done",
                   !.audioResult = IF outcome = "payload"
                                   THEN Some(BlobUrl(url)) ELSE Null]
    ELSE [c EXCEPT !.image = IF outcome = "throws" THEN "failed" ELSE "done",
                   !.imageResult = IF outcome = "payload"
                                   THEN Some(DataUrl) ELSE Null]

\* mutation of AssetsResolved: the setImageUrl call is missing
AssetsResolvedWithoutImage(c) ==
    [Cur EXCEPT !.audioUrl = c.audioResult, !.step = "preview", !.loading = FALSE]

\* mutation of AssetsResolved: a null speech result is treated as a failure
\* of the transition
AssetsResolvedRequiresAudio(c) ==
    IF c.audioResult = Null
    THEN [Cur EXCEPT !.loading = FALSE]
    ELSE [Cur EXCEPT !.audioUrl = c.audioResult, !.imageUrl = c.imageResult,
                     !.step = "preview", !.loading = FALSE]

\* what handleGenerateAssets commits when Promise.all resolved for call c
AssetsResolved(c) ==
    [Cur EXCEPT !.audioUrl = c.audioResult, !.imageUrl = c.imageResult,
                !.step = "preview", !.loading = FALSE]

\* mutation of AssetsRejected: the catch path keeps what the generator that
\* succeeded returned (as with Promise.allSettled)
AssetsRejectedKeepsPartial(c) ==
    [Cur EXCEPT !.audioUrl = c.audioResult, !.imageUrl = c.imageResult,
                !.loading = FALSE]

\* what handleGenerateAssets commits when Promise.all rejected for call c:
\* catch logs, finally clears loading
AssetsRejected(c) ==
    [Cur EXCEPT !.loading = FALSE]

\* One generator of call old settles.  Promise.all rejects with the first
\* rejection and resolves once both have fulfilled; the handler's continuation
\* runs in the same task.  A generator that settles after the rejection still
\* runs to its end: generateAudio then still creates its object URL.
GeneratorSettles(old, which, outcome) ==
    /\ phase = "running"
    /\ BagIn(old, assetCalls)
    /\ which \in {"audio", "image"}
    /\ old[which] = "pending"
    /\ (which = "audio" /\ outcome = "payload") => (1..MaxUrls) \ live # {}
    /\ LET makesUrl == which = "audio" /\ outcome = "payload"
           url == IF makesUrl THEN FreshUrl ELSE 0
           liveNow == IF makesUrl THEN live \cup {url} ELSE live
           c == Settled(old, which, outcome, url)
           other == IF which = "audio" THEN c.image ELSE c.audio
       IN  /\ IF c.settled
              THEN /\ live' = liveNow
                   /\ lastOp' = <<"other", "">>
                   /\ UNCHANGED <<query, loading, step, productInfo, script,
                                  audioUrl, imageUrl, error, isYoutubeConnected,
                                  shorts_ai_state, ls_isYoutubeConnected>>
              ELSE IF outcome = "throws"
              THEN /\ Commit(AssetsRejected(c), FALSE, shorts_ai_state, liveNow)
                   /\ lastOp' = <<"handleGenerateAssets", "catch">>
              ELSE IF other = "done"
              THEN /\ Commit(AssetsResolved(c), FALSE, shorts_ai_state, liveNow)
                   /\ lastOp' = <<"handleGenerateAssets", "preview",
                                  IF c.audioResult # Null THEN "payload" ELSE "nothing",
                                  IF c.imageResult # Null THEN "payload" ELSE "nothing">>
              ELSE /\ live' = liveNow
                   /\ lastOp' = <<"other", "">>
                   /\ UNCHANGED <<query, loading, step, productInfo, script,
                                  audioUrl, imageUrl, error, isYoutubeConnected,
                                  shorts_ai_state, ls_isYoutubeConnected>>
           /\ assetCalls' =
                IF other = "pending"
                THEN Add(Remove(assetCalls, old),
                         [c EXCEPT !.settled = c.settled \/ outcome = "throws"])
                ELSE Remove(assetCalls, old)
    /\ UNCHANGED <<phase, pending, searchCalls>>
    /\ UNCHANGED <<serviceVars, zip>>

(***************************************************************************)
(* Reset and the authorization signal.                                     *)
(***************************************************************************)
\* mutation of Cleared: the setScript(null) call is missing
ClearedKeepsScript ==
    [Cur EXCEPT !.query = "", !.step = "search", !.productInfo = "",
                !.audioUrl = Null, !.imageUrl = Null]

\* mutation of Cleared: the reset also flips the loading flag
ClearedTogglesLoading ==
    [Cur EXCEPT !.query = "", !.step = "search", !.productInfo = "",
                !.script = Null, !.audioUrl = Null, !.imageUrl = Null,
                !.loading = ~loading]

\* mutation of Cleared: the reset also disconnects (setIsYoutubeConnected(false))
ClearedDisconnects ==
    [Cur EXCEPT !.query = "", !.step = "search", !.productInfo = "",
                !.script = Null, !.audioUrl = Null, !.imageUrl = Null,
                !.isYoutubeConnected = FALSE]

\* the cells clearState sets
Cleared ==
    [Cur EXCEPT !.query = "", !.step = "search", !.productInfo = "",
                !.script = Null, !.audioUrl = Null, !.imageUrl = Null]

\* Where a reset button is on screen: Start Over in the script panel
\* ({step === 'script' && script && ...}), Discard & Start New in the preview
\* panel.  The script panel has an exit animation and AnimatePresence keeps it
\* mounted while it plays, so right after a reset made from the script panel
\* its Start Over button can be clicked again.
ResetButtonShown ==
    \/ step = "script" /\ script # Null
    \/ step = "preview"
    \/ lastOp[1] = "clearState" /\ lastOp[3] = "script"

\* clearState: localStorage.removeItem, then the six setState calls.
ClearState ==
    /\ phase = "running"
    /\ ResetButtonShown
    /\ Commit(Cleared, FALSE, Null, live)
    /\ lastOp' = IF lastOp[1] = "clearState"
                 THEN <<"clearState", "again", lastOp[3], lastOp[4]>>
                 ELSE <<"clearState", "first", step,
                        IF lastOp[1] = "handleMessage" THEN "signal" ELSE "">>
    /\ UNCHANGED <<phase, pending, searchCalls, assetCalls>>
    /\ UNCHANGED <<serviceVars, zip>>

MessageTypes == {"YOUTUBE_AUTH_SUCCESS", "OTHER"}

\* mutation of HandleMessage: the listener does not test event.data.type
HandleMessageAnyType(type) ==
    /\ phase = "running"
    /\ Commit([Cur EXCEPT !.isYoutubeConnected = TRUE, !.step = "preview"],
              FALSE, shorts_ai_state, live)
    /\ lastOp' = IF type = "YOUTUBE_AUTH_SUCCESS" THEN <<"handleMessage", type>> ELSE lastOp
    /\ UNCHANGED <<phase, pending, searchCalls, assetCalls>>
    /\ UNCHANGED <<serviceVars, zip>>

\* window 'message' listener
HandleMessage(type) ==
    /\ phase = "running"
    /\ IF type = "YOUTUBE_AUTH_SUCCESS"
       THEN Commit([Cur EXCEPT !.isYoutubeConnected = TRUE, !.step = "preview"],
                   FALSE, shorts_ai_state, live)
       ELSE UNCHANGED <<query, loading, step, productInfo, script, audioUrl,
                        imageUrl, error, isYoutubeConnected, shorts_ai_state,
                        ls_isYoutubeConnected, live>>
    /\ lastOp' = IF type = "YOUTUBE_AUTH_SUCCESS" THEN <<"handleMessage", type>> ELSE lastOp
    /\ UNCHANGED <<phase, pending, searchCalls, assetCalls>>
    /\ UNCHANGED <<serviceVars, zip>>

(***************************************************************************)
(* Specification.                                                          *)
(***************************************************************************)
Next ==
    \/ \E urlFlag \in BOOLEAN : Mount(urlFlag)
    \/ MountCommit
    \/ Reload
    \/ \E q \in Queries \cup {""} : SetQuery(q)
    \/ HandleSearch
    \/ \E c \in BagToSet(searchCalls) :
         \/ \E m \in ThrownMessages : SearchProductSettles(c, TRUE, m, "")
         \/ \E info \in Infos \cup {""} : SearchProductSettles(c, FALSE, "", info)
    \/ \E c \in BagToSet(searchCalls) :
         \/ \E m \in ThrownMessages : GenerateScriptSettles(c, TRUE, m, Null)
         \/ \E parsed \in ParsedScripts : GenerateScriptSettles(c, FALSE, "", parsed)
    \/ HandleGenerateAssets
    \/ \E c \in BagToSet(assetCalls), which \in {"audio", "image"},
          outcome \in GeneratorOutcomes : GeneratorSettles(c, which, outcome)
    \/ ClearState
    \/ \E type \in MessageTypes : HandleMessage(type)

Spec == Init /\ [][Next]_vars

(***************************************************************************)
(* A failing durable store: localStorage.getItem / setItem / removeItem    *)
(* throws (access denied, quota exceeded).  Each action below is a task of *)
(* the component in which the named store operations throw.  An exception  *)
(* that leaves an effect uncaught makes React unmount the component tree   *)
(* (no error boundary is rendered by App): phase "crashed".                *)
(***************************************************************************)
StoreOps == {"getFlag", "getSnapshot", "setUrlFlag", "setSnapshot", "setFlag"}

\* the component tree is unmounted: the cells are gone, the cleanup effects run
Unmounted ==
    /\ query' = "" /\ loading' = FALSE /\ step' = "search" /\ productInfo' = ""
    /\ script' = Null /\ audioUrl' = Null /\ imageUrl' = Null /\ error' = Null
    /\ isYoutubeConnected' = FALSE
    /\ pending' = InitialState(Null)
    /\ searchCalls' = EmptyBag
    /\ assetCalls' = EmptyBag

\* First render and its effects with the store operations in throws throwing.
\* The useState initialiser catches a throwing getItem (flag false); the
\* restore effect catches a throwing getItem (nothing restored) but not its
\* own setItem for the youtube_success URL flag; the persist effect catches
\* its setItem; the connection effect's setItem is not caught.
MountStoreThrows(urlFlag, throws) ==
    /\ phase = "unmounted"
    /\ throws # {}
    /\ "setUrlFlag" \in throws => urlFlag
    /\ LET first == InitialState(IF "getFlag" \in throws
                                 THEN Null ELSE ls_isYoutubeConnected)
           restored == IF shorts_ai_state # Null /\ "getSnapshot" \notin throws
                       THEN Restored(first, shorts_ai_state[1])
                       ELSE first
           uncaught == throws \cap {"setUrlFlag", "setFlag"} # {}
       IN  /\ shorts_ai_state' = IF "setSnapshot" \in throws
                                 THEN shorts_ai_state
                                 ELSE Some(Snapshot(first))
           /\ ls_isYoutubeConnected' =
                IF "setFlag" \notin throws
                THEN Some(BoolText(first.isYoutubeConnected))
                ELSE IF urlFlag /\ "setUrlFlag" \notin throws
                THEN Some("true")
                ELSE ls_isYoutubeConnected
           /\ IF uncaught
              THEN /\ Unmounted
                   /\ phase' = "crashed"
                   /\ lastOp' = <<"mount", "crashed">>
              ELSE /\ pending' = IF urlFlag
                                 THEN [restored EXCEPT !.isYoutubeConnected = TRUE]
                                 ELSE restored
                   /\ query' = first.query
                   /\ loading' = first.loading
                   /\ step' = first.step
                   /\ productInfo' = first.productInfo
                   /\ script' = first.script
                   /\ audioUrl' = first.audioUrl
                   /\ imageUrl' = first.imageUrl
                   /\ error' = first.error
                   /\ isYoutubeConnected' = first.isYoutubeConnected
                   /\ phase' = "restoring"
                   /\ lastOp' = <<"mount", "effects">>
                   /\ UNCHANGED <<searchCalls, assetCalls>>
    /\ UNCHANGED live
    /\ UNCHANGED <<serviceVars, zip>>

\* setQuery whose commit runs the persist effect with setItem throwing: the
\* effect catches and warns, and the store keeps what it held
SetQueryStoreThrows(q) ==
    /\ phase = "running"
    /\ step = "search"
    /\ q # query
    /\ query' = q
    /\ lastOp' = <<"setItem", "caught">>
    /\ UNCHANGED <<phase, loading, step, productInfo, script, audioUrl, imageUrl,
                   error, isYoutubeConnected, pending, shorts_ai_state,
                   ls_isYoutubeConnected, searchCalls, assetCalls, live>>
    /\ UNCHANGED <<serviceVars, zip>>

\* clearState with localStorage.removeItem throwing: the exception leaves the
\* click handler before any of its setState calls
ClearStateStoreThrows ==
    /\ phase = "running"
    /\ ResetButtonShown
    /\ lastOp' = <<"removeItem", "throws">>
    /\ UNCHANGED <<phase, query, loading, step, productInfo, script, audioUrl,
                   imageUrl, error, isYoutubeConnected, pending, shorts_ai_state,
                   ls_isYoutubeConnected, searchCalls, assetCalls, live>>
    /\ UNCHANGED <<serviceVars, zip>>

\* the authorization message flips isYoutubeConnected, and the connection
\* effect of that commit runs with setItem throwing (the persist effect is
\* declared before it and has run)
HandleMessageStoreThrows ==
    /\ phase = "running"
    /\ ~isYoutubeConnected
    /\ shorts_ai_state' =
         PersistEffect([Cur EXCEPT !.isYoutubeConnected = TRUE, !.step = "preview"],
                       FALSE, shorts_ai_state)
    /\ Unmounted
    /\ phase' = "crashed"
    /\ live' = live \ BlobIds(audioUrl, imageUrl)
    /\ lastOp' = <<"handleMessage", "crashed">>
    /\ UNCHANGED ls_isYoutubeConnected
    /\ UNCHANGED <<serviceVars, zip>>

StoreFaultNext ==
    \/ Next
    \/ \E urlFlag \in BOOLEAN, throws \in SUBSET StoreOps :
         MountStoreThrows(urlFlag, throws)
    \/ \E q \in Queries \cup {""} : SetQueryStoreThrows(q)
    \/ ClearStateStoreThrows
    \/ HandleMessageStoreThrows

StoreFaultSpec == Init /\ [][StoreFaultNext]_vars

(***************************************************************************)
(* The generation client on its own (services/gemini): its four            *)
(* operations are called one at a time, against a backend whose responses  *)
(* are drawn from small sets, while the environment may change the         *)
(* credential between calls.                                               *)
(***************************************************************************)
KeyValues == {Null, Some(""), Some("secret")}
Operations == {"searchProduct", "generateScript", "generateAudio", "generateVisual"}

MissingKeyMessage == "Gemini API Key is missing. Please set GEMINI_API_KEY in your Render.com environment variables."
BackendMessage == "Backend failure"

\* mutation of GetAIThrows: the credential is checked for the first request
\* only (a client created once and kept)
GetAIThrowsFirstCallOnly ==
    requests = 0 /\ (GEMINI_API_KEY = Null \/ GEMINI_API_KEY = Some(""))

\* getAI: if (!apiKey) throw
GetAIThrows ==
    GEMINI_API_KEY = Null \/ GEMINI_API_KEY = Some("")

\* const ai = getAI(); const response = await ai.models.generateContent(...):
\* the operation rejects in getAI, or makes its request, which fails (failed)
\* or is answered; result is what the operation then returns
Call(op, failed, result) ==
    IF GetAIThrows
    THEN /\ returned' = Rejected(op, MissingKeyMessage)
         /\ UNCHANGED requests
    ELSE /\ requests < MaxRequests
         /\ requests' = requests + 1
         /\ returned' = IF failed THEN Rejected(op, BackendMessage) ELSE result

\* the environment sets or removes the credential
SetEnv(k) ==
    /\ k # GEMINI_API_KEY
    /\ GEMINI_API_KEY' = k
    /\ UNCHANGED <<requests, returned, appVars, zip>>

\* searchProduct: return response.text (text, or undefined: Null)
SearchProduct(failed, text) ==
    /\ Call("searchProduct", failed, Resolved("searchProduct", text))
    /\ UNCHANGED <<GEMINI_API_KEY, appVars, zip>>

\* the texts a generateScript response carries (UNDEF: the response has none)
ScriptTexts ==
    {"{\"hook\":\"Amazing!\",\"body\":\"It works.\",\"cta\":\"Buy now!\"}",
     "{\"hook\":\"Amazing!\",\"body\":\"It works.\"}",
     "null",
     "I cannot help with that.",
     UNDEF}

\* JSON.parse(text): the parsed value, or a SyntaxError
JsonParse(op, text) ==
    CASE text = "{\"hook\":\"Amazing!\",\"body\":\"It works.\",\"cta\":\"Buy now!\"}"
           -> Resolved(op, Some(GoodScript))
      [] text = "{\"hook\":\"Amazing!\",\"body\":\"It works.\"}"
           -> Resolved(op, Some(NoCtaScript))
      [] text = "null"
           -> Resolved(op, Null)
      [] OTHER
           -> Rejected(op, "Unexpected token in JSON")

\* generateScript: return JSON.parse(response.text)
GenerateScript(failed, text) ==
    /\ Call("generateScript", failed, JsonParse("generateScript", text))
    /\ UNCHANGED <<GEMINI_API_KEY, appVars, zip>>

\* generateVisual: the data URL of the first part with inlineData, else null
GenerateVisual(failed, hasInlineData) ==
    /\ Call("generateVisual", failed,
            Resolved("generateVisual",
                     IF hasInlineData THEN Some(DataUrl) ELSE Null))
    /\ UNCHANGED <<GEMINI_API_KEY, appVars, zip>>

\* ---- generateAudio: base64 payload -> bytes -> 44-byte WAV header + bytes

\* the base64 alphabet; a character's value is its position - 1
B64 ==
    <<"A", "B", "C", "D", "E", "F", "G", "H", "I", "J", "K", "L", "M", "N", "O",
      "P", "Q", "R", "S", "T", "U", "V", "W", "X", "Y", "Z", "a", "b", "c", "d",
      "e", "f", "g", "h", "i", "j", "k", "l", "m", "n", "o", "p", "q", "r", "s",
      "t", "u", "v", "w", "x", "y", "z", "0", "1", "2", "3", "4", "5", "6", "7",
      "8", "9", "+", "/">>
B64Value(ch) == (CHOOSE i \in DOMAIN B64 : B64[i] = ch) - 1
IsB64(ch) == \E i \in DOMAIN B64 : B64[i] = ch
Whitespace == {" ", "\n"}

\* part.data.replace(/\s/g, ''), on a text given as its characters
StripWhitespace(text) == SelectSeq(text, LAMBDA ch : ch \notin Whitespace)

\* window.atob: one or two trailing "=" of a text whose length is a multiple
\* of 4 are dropped; what is left must be alphabet characters, not 1 mod 4 long
Unpadded(text) ==
    IF Len(text) % 4 = 0 /\ Len(text) >= 2 /\ text[Len(text)] = "="
    THEN IF text[Len(text) - 1] = "="
         THEN SubSeq(text, 1, Len(text) - 2)
         ELSE SubSeq(text, 1, Len(text) - 1)
    ELSE text
AtobThrows(text) ==
    LET u == Unpadded(text)
    IN  Len(u) % 4 = 1 \/ \E i \in DOMAIN u : ~IsB64(u[i])
\* the char codes of atob(text): every 4 characters give 3 bytes, and the
\* bits left over at the end are dropped
Atob(text) ==
    LET u == Unpadded(text)
        v(i) == IF i <= Len(u) THEN B64Value(u[i]) ELSE 0
        byte(k) ==
            LET q == 4 * ((k - 1) \div 3)
                r == (k - 1) % 3
            IN  IF r = 0 THEN v(q + 1) * 4 + v(q + 2) \div 16
                ELSE IF r = 1 THEN (v(q + 2) % 16) * 16 + v(q + 3) \div 4
                ELSE (v(q + 3) % 4) * 64 + v(q + 4)
    IN  [k \in 1..((Len(u) * 6) \div 8) |-> byte(k)]

sampleRate == 24000
numChannels == 1
bitsPerSample == 16
RIFF == 1380533830      \* 0x52494646
WAVE == 1463899717      \* 0x57415645
FMT == 1718449184       \* 0x666d7420
DATA == 1684108385      \* 0x64617461

\* DataView.setUint16 / setUint32 at byteOffset (0-based): the value's low
\* 8 * width bits, least significant byte first when littleEndian.  Every
\* value written here is below 2^31, so the reduction to 32 bits never bites.
SetUint(view, byteOffset, value, width, littleEndian) ==
    [i \in DOMAIN view |->
        IF i \in (byteOffset + 1)..(byteOffset + width)
        THEN LET k == i - byteOffset - 1
                 shift == IF littleEndian THEN k ELSE width - 1 - k
             IN  (value \div (256 ^ shift)) % 256
        ELSE view[i]]

\* mutation of WavHeader: the data chunk length is left out of the file length
WavHeaderShortLength(length) ==
    LET h0 == [i \in 1..44 |-> 0]
        h1 == SetUint(h0, 0, RIFF, 4, FALSE)
        h2 == SetUint(h1, 4, 36, 4, TRUE)
        h3 == SetUint(h2, 8, WAVE, 4, FALSE)
        h4 == SetUint(h3, 12, FMT, 4, FALSE)
        h5 == SetUint(h4, 16, 16, 4, TRUE)
        h6 == SetUint(h5, 20, 1, 2, TRUE)
        h7 == SetUint(h6, 22, numChannels, 2, TRUE)
        h8 == SetUint(h7, 24, sampleRate, 4, TRUE)
        h9 == SetUint(h8, 28, sampleRate * numChannels * (bitsPerSample \div 8), 4, TRUE)
        h10 == SetUint(h9, 32, numChannels * (bitsPerSample \div 8), 2, TRUE)
        h11 == SetUint(h10, 34, bitsPerSample, 2, TRUE)
        h12 == SetUint(h11, 36, DATA, 4, FALSE)
    IN  SetUint(h12, 40, length, 4, TRUE)

\* the 44 header bytes generateAudio writes for length bytes of PCM
WavHeader(length) ==
    LET h0 == [i \in 1..44 |-> 0]
        h1 == SetUint(h0, 0, RIFF, 4, FALSE)
        h2 == SetUint(h1, 4, 36 + length, 4, TRUE)
        h3 == SetUint(h2, 8, WAVE, 4, FALSE)
        h4 == SetUint(h3, 12, FMT, 4, FALSE)
        h5 == SetUint(h4, 16, 16, 4, TRUE)
        h6 == SetUint(h5, 20, 1, 2, TRUE)
        h7 == SetUint(h6, 22, numChannels, 2, TRUE)
        h8 == SetUint(h7, 24, sampleRate, 4, TRUE)
        h9 == SetUint(h8, 28, sampleRate * numChannels * (bitsPerSample \div 8), 4, TRUE)
        h10 == SetUint(h9, 32, numChannels * (bitsPerSample \div 8), 2, TRUE)
        h11 == SetUint(h10, 34, bitsPerSample, 2, TRUE)
        h12 == SetUint(h11, 36, DATA, 4, FALSE)
    IN  SetUint(h12, 40, length, 4, TRUE)

\* new Blob([header, bytes])
Wav(bytes) == WavHeader(Len(bytes)) \o bytes

\* The inline audio payloads (part.data, as characters) the backend is taken
\* to answer with: up to MaxQuads groups of four characters, then a padded,
\* unpadded, whitespace-broken or invalid tail; and one payload of 48 bytes.
Quads == {<<"/", "/", "/", "/">>, <<"A", "Q", "I", "D">>}
Tails ==
    {<< >>, <<"A", "Q", "I", "=">>, <<"/", "w">>,
     <<"\n", "A", "Q", " ", "I", "=">>, <<"*", "A", "A", "A">>}
RECURSIVE QuadTexts(_)
QuadTexts(n) ==
    IF n = 0 THEN {<< >>}
    ELSE LET shorter == QuadTexts(n - 1)
         IN  shorter \cup {t \o q : t \in shorter, q \in Quads}
RECURSIVE Repeat(_, _)
Repeat(text, n) == IF n = 0 THEN << >> ELSE text \o Repeat(text, n - 1)
AudioPayloads ==
    {t \o tail : t \in QuadTexts(MaxQuads), tail \in Tails}
      \cup {Repeat(<<"A", "Q", "I", "D">>, 16)}

appVarsButLive ==
    <<phase, query, loading, step, productInfo, script, audioUrl, imageUrl,
      error, isYoutubeConnected, pending, shorts_ai_state,
      ls_isYoutubeConnected, searchCalls, assetCalls, lastOp>>

\* generateAudio: null when the response has no inlineData; else the payload
\* is decoded, wrapped and URL.createObjectURL returns a new blob: URL
GenerateAudio(failed, inlineData) ==
    /\ LET text == StripWhitespace(inlineData[1])
           makesUrl == /\ ~GetAIThrows /\ ~failed
                       /\ inlineData # Null /\ ~AtobThrows(text)
       IN  /\ makesUrl => (1..MaxUrls) \ live # {}
           /\ Call("generateAudio", failed,
                   IF inlineData = Null
                   THEN Resolved("generateAudio", Null)
                   ELSE IF AtobThrows(text)
                   THEN Rejected("generateAudio", "InvalidCharacterError")
                   ELSE [Resolved("generateAudio", Some(BlobUrl(FreshUrl)))
                           EXCEPT !.blob = Wav(Atob(text)),
                                  !.payload = inlineData[1]])
           /\ live' = IF makesUrl THEN live \cup {FreshUrl} ELSE live
    /\ UNCHANGED <<GEMINI_API_KEY, appVarsButLive, zip>>

\* URL.revokeObjectURL(u), as the page's cleanup effect calls it
RevokeObjectURL(u) ==
    /\ u \in live
    /\ live' = live \ {u}
    /\ UNCHANGED <<serviceVars, appVarsButLive, zip>>

ServiceNext ==
    \/ \E k \in KeyValues : SetEnv(k)
    \/ \E failed \in BOOLEAN, text \in {Null} \cup {Some(i) : i \in Infos} :
         SearchProduct(failed, text)
    \/ \E failed \in BOOLEAN, text \in ScriptTexts : GenerateScript(failed, text)
    \/ \E failed \in BOOLEAN, inlineData \in {Null} \cup {Some(p) : p \in AudioPayloads} :
         GenerateAudio(failed, inlineData)
    \/ \E failed \in BOOLEAN, hasInlineData \in BOOLEAN :
         GenerateVisual(failed, hasInlineData)
    \/ \E u \in 1..MaxUrls : RevokeObjectURL(u)

ServiceSpec == Init /\ [][ServiceNext]_vars

(***************************************************************************)
(* The bundle export on its own: handleDownloadAll, started from any state *)
(* in which the preview panel (and so its Download All button) is on       *)
(* screen, with the component's state left alone while the export runs.    *)
(* zip is Null before the first export, else Some of the handler's         *)
(* position (the await it is at, or "downloaded") and the archive's files. *)
(***************************************************************************)
\* The states of the preview panel: each of script, audioUrl and imageUrl is
\* set or not (a resolved generation sets the artifacts its generators
\* returned, a late one sets them after a reset has cleared the script, the
\* authorization signal shows the panel without any of the three); an audio
\* URL in its cell is alive, and the stores hold what the effects wrote.
BundleInit ==
    /\ phase = "running"
    /\ step = "preview"
    /\ query \in Queries \cup {""}
    /\ productInfo = ""
    /\ loading = FALSE
    /\ error = Null
    /\ script \in {Null, Some(GoodScript), Some(NoCtaScript)}
    /\ audioUrl \in {Null} \cup {Some(BlobUrl(u)) : u \in 1..MaxUrls}
    /\ imageUrl \in {Null, Some(DataUrl)}
    /\ isYoutubeConnected \in BOOLEAN
    /\ pending = InitialState(Null)
    /\ shorts_ai_state = Some(Snapshot(Cur))
    /\ ls_isYoutubeConnected = Some(BoolText(isYoutubeConnected))
    /\ searchCalls = EmptyBag
    /\ assetCalls = EmptyBag
    /\ live = BlobIds(audioUrl, imageUrl)
    /\ lastOp = <<"other", "">>
    /\ GEMINI_API_KEY = Some("secret")
    /\ requests = 0
    /\ returned = NotCalled
    /\ zip = Null

\* zip.file(name, data): the entry of that name is added or replaced
ZipFile(files, name, data) ==
    {f \in files : f.name # name} \cup {[name |-> name, data |-> data]}

\* `HOOK: ${script.hook}\n\nBODY: ${script.body}\n\nCTA: ${script.cta}`
ScriptText ==
    <<"HOOK: ", String(script[1].hook), "\n\nBODY: ", String(script[1].body),
      "\n\nCTA: ", String(script[1].cta)>>

\* mutation of WithScript: script.txt is written whether or not there is a script
WithScriptAlways(files) ==
    ZipFile(files, "script.txt", IF script # Null THEN ScriptText ELSE << >>)

\* if (script) zip.file("script.txt", scriptText)
WithScript(files) ==
    IF script # Null THEN ZipFile(files, "script.txt", ScriptText) ELSE files

\* the handler from after the audio block to its next await
AfterAudio(files) ==
    [pc |-> "generateAsync", files |-> WithScript(files)]
\* the handler from after the image block to its next await
AfterImage(files) ==
    IF audioUrl # Null
    THEN [pc |-> "fetchAudio", files |-> files]
    ELSE AfterAudio(files)

\* handleDownloadAll up to its first await: new JSZip(), then the first of
\* fetch(imageUrl), fetch(audioUrl), zip.generateAsync that applies
HandleDownloadAll ==
    /\ phase = "running"
    /\ step = "preview"
    /\ IF zip = Null THEN TRUE ELSE zip[1].pc = "downloaded"
    /\ zip' = Some(IF imageUrl # Null
                   THEN [pc |-> "fetchImage", files |-> {}]
                   ELSE AfterImage({}))
    /\ UNCHANGED <<appVars, serviceVars>>

\* fetch(imageUrl).then(r => r.blob()) has resolved: zip.file("visual.png", imgData)
FetchImageSettles ==
    /\ zip # Null
    /\ zip[1].pc = "fetchImage"
    /\ zip' = Some(AfterImage(ZipFile(zip[1].files, "visual.png", imageUrl)))
    /\ UNCHANGED <<appVars, serviceVars>>

\* fetch(audioUrl).then(r => r.blob()) has resolved: zip.file("audio.wav", audioData)
FetchAudioSettles ==
    /\ zip # Null
    /\ zip[1].pc = "fetchAudio"
    /\ zip' = Some(AfterAudio(ZipFile(zip[1].files, "audio.wav", audioUrl)))
    /\ UNCHANGED <<appVars, serviceVars>>

\* zip.generateAsync has resolved: the archive is handed to the browser as a
\* download (link.click())
GenerateAsyncSettles ==
    /\ zip # Null
    /\ zip[1].pc = "generateAsync"
    /\ zip' = Some([zip[1] EXCEPT !.pc = "downloaded"])
    /\ UNCHANGED <<appVars, serviceVars>>

BundleNext ==
    \/ HandleDownloadAll
    \/ FetchImageSettles
    \/ FetchAudioSettles
    \/ GenerateAsyncSettles

BundleSpec == BundleInit /\ [][BundleNext]_vars

(***************************************************************************)
(* Properties.                                                             *)
(***************************************************************************)
Running == phase = "running"
StageFields == <<query, step, productInfo, script>>
AfterReset == Running /\ lastOp[1] = "clearState"
AfterSearchCatch == Running /\ lastOp = <<"handleSearch", "catch">>
AfterAssetsCatch == Running /\ lastOp = <<"handleGenerateAssets", "catch">>
AfterAssetsPreview ==
    Running /\ lastOp[1] = "handleGenerateAssets" /\ lastOp[2] = "preview"

\* C1: both artifacts are non-null only while the stage is preview.
C1_BothArtifactsOnlyInPreview ==
    (audioUrl # Null /\ imageUrl # Null) => step = "preview"

\* C2: script is never non-null while the stage is search.
C2_NoScriptInSearch ==
    step = "search" => script = Null

\* C2 witness: a reset has returned the pipeline to search after a script was
\* shown, while a search started earlier is still awaiting its backend call.
C2_Witness ==
    /\ AfterReset
    /\ step = "search"
    /\ shorts_ai_state # Null
    /\ searchCalls # EmptyBag

\* C3: the task in which handleGenerateAssets takes its catch path changes
\* neither artifact, nor the stage, nor the recorded error.
C3_FailedAssetsChangeNothing ==
    [][(Running /\ lastOp' = <<"handleGenerateAssets", "catch">>)
         => (audioUrl' = audioUrl /\ imageUrl' = imageUrl /\ step' = step
             /\ error' = error)]_vars

\* C3 witness: the transition has failed after speech generation had produced
\* its object URL (the URL is alive and held by no cell), so the image
\* generator threw while the speech generator had succeeded.
C3_Witness ==
    /\ AfterAssetsCatch
    /\ assetCalls = EmptyBag
    /\ live \ BlobIds(audioUrl, imageUrl) # {}
    /\ audioUrl = Null /\ imageUrl = Null /\ step = "script"

\* C4 as stated: a preview produced by the script -> preview transition has
\* both artifacts set.
C4_PreviewHasBothArtifacts ==
    AfterAssetsPreview => (audioUrl # Null /\ imageUrl # Null)

\* C4 amended: a resolved script -> preview transition sets the stage to
\* preview together with both artifact cells, each to its generator's result:
\* an artifact is set exactly when its generator returned a payload.
C4_PreviewBindsResults ==
    AfterAssetsPreview =>
        /\ step = "preview"
        /\ (audioUrl # Null) <=> (lastOp[3] = "payload")
        /\ (imageUrl # Null) <=> (lastOp[4] = "payload")
        /\ audioUrl # Null => audioUrl[1].id \in live

\* C4 witness: the transition resolved with no speech payload and an image.
C4_Witness ==
    /\ AfterAssetsPreview
    /\ step = "preview"
    /\ audioUrl = Null
    /\ imageUrl # Null

\* C5: the task in which handleSearch takes its catch path leaves stage and
\* script as they were and records a non-empty error message.
C5_AbortedSearchRecordsError ==
    [][(Running /\ lastOp' = <<"handleSearch", "catch">>)
         => (step' = step /\ script' = script /\ error' # Null
             /\ error'[1] # "")]_vars

\* C5 witness: the lookup succeeded (productInfo holds its result) and the
\* script call then failed, with the stage still search.
C5_Witness ==
    /\ AfterSearchCatch
    /\ productInfo \in Infos
    /\ step = "search"
    /\ script = Null
    /\ error # Null

\* C6: right after reset every field has its initial value.
C6_ResetRestoresInitialValues ==
    AfterReset =>
        /\ query = "" /\ step = "search" /\ productInfo = "" /\ script = Null
        /\ audioUrl = Null /\ imageUrl = Null
        /\ error = Null

C8_ResetClearsSnapshot ==
    AfterReset => shorts_ai_state = Null

\* C9: when no generator is pending, every live object URL is held by a cell.
C9_NoArtifactLeak ==
    (Running /\ assetCalls = EmptyBag) => live \subseteq BlobIds(audioUrl, imageUrl)

\* C10: a task other than reset that changes query, step, productInfo or
\* script leaves a snapshot equal to exactly these four values.
C10_SnapshotTracksState ==
    [][(Running' /\ lastOp'[1] # "clearState" /\ StageFields' # StageFields)
         => shorts_ai_state' = Some([query |-> query', step |-> step',
                                     productInfo |-> productInfo',
                                     script |-> script'])]_vars

\* C11: start-up over a stored snapshot brings query, step, productInfo and
\* script to the snapshot's values and leaves both artifacts null: the restore
\* effect queues exactly the snapshot's four values, and the commit that ends
\* start-up makes them the state.
C11_RestoreOnStart ==
    [][/\ (phase = "unmounted" /\ phase' = "restoring" /\ shorts_ai_state # Null)
            => /\ <<pending'.query, pending'.step, pending'.productInfo,
                    pending'.script>>
                    = <<shorts_ai_state[1].query, shorts_ai_state[1].step,
                        shorts_ai_state[1].productInfo, shorts_ai_state[1].script>>
               /\ pending'.audioUrl = Null /\ pending'.imageUrl = Null
       /\ (phase = "restoring" /\ phase' = "running")
            => /\ StageFields' = <<pending.query, pending.step,
                                   pending.productInfo, pending.script>>
               /\ audioUrl' = Null /\ imageUrl' = Null]_vars

\* C11 witness: a session that had reached preview with a script was reloaded
\* and has started again: the stage is preview, the script is back, and there
\* is no artifact.
C11_Witness ==
    /\ Running
    /\ lastOp = <<"mount", "restored">>
    /\ step = "preview"
    /\ query \in Queries
    /\ productInfo \in Infos
    /\ script = Some(GoodScript)
    /\ audioUrl = Null /\ imageUrl = Null


\* C12: no failure of a store operation is fatal and each leaves the state in
\* memory as if the operation had been skipped: the component is never
\* unmounted by a throwing store, and a reset whose snapshot removal threw
\* has still reset the pipeline.
C12_StoreFailuresNeverFatal ==
    /\ phase # "crashed"
    /\ lastOp = <<"removeItem", "throws">>
         => (query = "" /\ step = "search" /\ productInfo = "" /\ script = Null
             /\ audioUrl = Null /\ imageUrl = Null)


AfterAuthSignal == Running /\ lastOp = <<"handleMessage", "YOUTUBE_AUTH_SUCCESS">>

C14_SignalIsOneShot ==
    [][(AfterReset /\ lastOp[4] = "signal"
          /\ lastOp' = <<"handleMessage", "YOUTUBE_AUTH_SUCCESS">>)
         => UNCHANGED <<query, step, productInfo, script, audioUrl, imageUrl>>]_vars


\* C15: every task of the running component other than the authorization
\* signal (a reset, an edit or submission of the query, each step of a search
\* and of an asset generation, resolved or failed) leaves the connection flag
\* and its stored copy as they were.
C15_ConnectionFlagIndependent ==
    [][(Running /\ Running' /\ lastOp'[1] # "handleMessage")
         => UNCHANGED <<isYoutubeConnected, ls_isYoutubeConnected>>]_vars

\* C15 witness: a connected session in which a query was submitted and speech
\* was generated (its object URL is alive) has been reset from the preview
\* stage: the flag is still set and stored.
C15_Witness ==
    /\ AfterReset
    /\ lastOp = <<"clearState", "first", "preview", "">>
    /\ isYoutubeConnected
    /\ ls_isYoutubeConnected = Some("true")
    /\ live # {}


\* C16: a call of any of the four client operations made while no credential
\* is configured (GEMINI_API_KEY unset or empty) is rejected with the missing
\* key error and makes no backend request, whatever calls came before it.
C16_CredentialCheckedPerCall ==
    [][((returned' # returned \/ requests' # requests)
          /\ (GEMINI_API_KEY = Null \/ GEMINI_API_KEY = Some("")))
         => /\ returned'.op \in Operations
            /\ returned'.threw
            /\ returned'.message = MissingKeyMessage
            /\ requests' = requests]_vars

\* C16 witness: requests were made with a credential, the credential was then
\* removed, and the next call, of generateAudio, was rejected for the missing
\* key.
C16_Witness ==
    /\ requests = 2
    /\ GEMINI_API_KEY = Null
    /\ returned = Rejected("generateAudio", MissingKeyMessage)


\* C17: generateScript resolves only with an object whose hook, body and cta
\* are all present and non-empty; any other payload makes it fail.
C17_ScriptValidated ==
    (returned.op = "generateScript" /\ ~returned.threw)
      => /\ returned.value # Null
         /\ \A f \in {"hook", "body", "cta"} :
              returned.value[1][f] # UNDEF /\ returned.value[1][f] # ""


\* C18: a speech generator that returns nothing has not failed.  While the
\* image generator is pending nothing is committed and the call is not marked
\* rejected; once both have returned, in either order, the transition
\* resolves: the stage becomes preview with audioUrl null, loading is cleared
\* and no error is recorded.
C18_NothingIsNotFailure ==
    [][assetCalls' # assetCalls => \A c \in BagToSet(assetCalls) :
         LET resolves == /\ step' = "preview" /\ audioUrl' = Null /\ ~loading'
                         /\ error' = error
                         /\ lastOp'[1] = "handleGenerateAssets"
                         /\ lastOp'[2] = "preview"
         IN  /\ (c.image = "pending" /\ ~c.settled
                   /\ GeneratorSettles(c, "audio", "nothing"))
                  => /\ UNCHANGED <<step, audioUrl, imageUrl, loading, error>>
                     /\ BagIn([c EXCEPT !.audio = "done"], assetCalls')
             /\ (c.image = "done" /\ ~c.settled
                   /\ GeneratorSettles(c, "audio", "nothing"))
                  => resolves
             /\ (c.audio = "done" /\ c.audioResult = Null /\ ~c.settled
                   /\ \E outcome \in {"nothing", "payload"} :
                        GeneratorSettles(c, "image", outcome))
                  => resolves]_vars

\* C18 witness: a transition whose speech generator returned nothing has
\* resolved: the stage is preview with no audio, nothing is loading or
\* pending, and no error is recorded.
C18_Witness ==
    /\ AfterAssetsPreview
    /\ lastOp[3] = "nothing"
    /\ step = "preview"
    /\ audioUrl = Null
    /\ ~loading
    /\ error = Null
    /\ assetCalls = EmptyBag


\* reading a header field back from container bytes b at 0-based offset
U16LE(b, offset) == b[offset + 1] + 256 * b[offset + 2]
U32LE(b, offset) ==
    b[offset + 1] + 256 * b[offset + 2] + 65536 * b[offset + 3]
      + 16777216 * b[offset + 4]
Tag(b, offset) == SubSeq(b, offset + 1, offset + 4)

\* C19: when generateAudio has wrapped a payload that decodes to N bytes of
\* PCM, N even, the blob it returns has N + 44 bytes; its header reads 'RIFF',
\* chunk size 36 + N, 'WAVE', 'fmt ', format 1, 1 channel, rate 24000, byte
\* rate 48000, block align 2, 16 bits per sample, 'data', data length N
\* (numbers little-endian, tags in byte order); and the N bytes after the
\* header are the PCM bytes.
C19_WavRoundTrip ==
    (returned.op = "generateAudio" /\ returned.value # Null)
      => LET pcm == Atob(StripWhitespace(returned.payload))
             N == Len(pcm)
             out == returned.blob
         IN  N % 2 = 0
               => /\ Len(out) = N + 44
                  /\ Tag(out, 0) = <<82, 73, 70, 70>>
                  /\ U32LE(out, 4) = 36 + N
                  /\ Tag(out, 8) = <<87, 65, 86, 69>>
                  /\ Tag(out, 12) = <<102, 109, 116, 32>>
                  /\ U32LE(out, 16) = 16
                  /\ U16LE(out, 20) = 1
                  /\ U16LE(out, 22) = 1
                  /\ U32LE(out, 24) = 24000
                  /\ U32LE(out, 28) = 48000
                  /\ U16LE(out, 32) = 2
                  /\ U16LE(out, 34) = 16
                  /\ Tag(out, 36) = <<100, 97, 116, 97>>
                  /\ U32LE(out, 40) = N
                  /\ SubSeq(out, 45, N + 44) = pcm

\* C19 witness: generateAudio has returned an object URL whose blob is the
\* 92-byte container of a 48-byte payload.
C19_Witness ==
    /\ returned.op = "generateAudio"
    /\ returned.value # Null
    /\ Len(Atob(StripWhitespace(returned.payload))) = 48
    /\ Len(returned.blob) = 92
    /\ SubSeq(returned.blob, 45, 47) = <<1, 2, 3>>


Downloaded == zip # Null /\ zip[1].pc = "downloaded"
EntryNames == {f.name : f \in zip[1].files}

\* C20: whatever of image, audio and script is present, an export that has
\* started can always take its next step until the archive is downloaded, and
\* the downloaded archive has exactly one entry per present item, under the
\* names visual.png, audio.wav and script.txt, and none for an absent item.
C20_BundleOmitsAbsentItems ==
    /\ (zip # Null /\ ~Downloaded) => ENABLED BundleNext
    /\ Downloaded =>
         /\ ("visual.png" \in EntryNames) <=> (imageUrl # Null)
         /\ ("audio.wav" \in EntryNames) <=> (audioUrl # Null)
         /\ ("script.txt" \in EntryNames) <=> (script # Null)
         /\ EntryNames \subseteq {"visual.png", "audio.wav", "script.txt"}
         /\ Cardinality(zip[1].files) = Cardinality(EntryNames)

\* C20 witness: an export with only a script present has been downloaded and
\* its archive has exactly one entry, script.txt.
C20_Witness ==
    /\ Downloaded
    /\ script = Some(GoodScript) /\ audioUrl = Null /\ imageUrl = Null
    /\ Cardinality(zip[1].files) = 1
    /\ EntryNames = {"script.txt"}

Unsettled == [r \in {x \in BagToSet(assetCalls) : ~x.settled} |-> assetCalls[r]]
\* transitions in flight: handler invocations still waiting for a backend call
Active == BagCardinality(searchCalls) + BagCardinality(Unsettled)

\* C22: at most one transition (handleSearch or handleGenerateAssets
\* invocation) is waiting for its backend calls at any time.
C22_SingleActiveTransition ==
    Active <= 1

\* a run has been started and not reset: a submitted search is waiting for a
\* backend call, or the stage is past search
RunStarted == searchCalls # EmptyBag \/ step \in {"script", "preview"}

\* C23: from the submission of a query until a reset, the query cell does not
\* change (so generateVisual is given the query searchProduct was given).
C23_QueryFixedDuringRun ==
    [][(Running /\ Running' /\ RunStarted /\ lastOp'[1] # "clearState")
         => query' = query]_vars

\* C24: after a reset made while handleGenerateAssets was waiting for its
\* generators (the stage is search again, with no query and no search
\* submitted since), the completion of that invocation changes neither the
\* stage nor the script nor the artifacts.
C24_ResetNotUndone ==
    [][(Running /\ Running'
          /\ step = "search" /\ query = "" /\ searchCalls = EmptyBag
          /\ BagCardinality(Unsettled) > 0
          /\ lastOp'[1] # "handleMessage")
         => UNCHANGED <<step, script, audioUrl, imageUrl>>]_vars

\* C25: when the component starts with a snapshot in the store, the first
\* render's effects leave the stored snapshot as it was.
C25_StartupKeepsSnapshot ==
    [][(phase = "unmounted" /\ phase' = "restoring" /\ shorts_ai_state # Null)
         => shorts_ai_state' = shorts_ai_state]_vars

\* C26: whenever the stage is script, a script is held.
C26_ScriptStageHasScript ==
    step = "script" => script # Null

\* C26 witness: the component has restarted from a snapshot it wrote at the
\* script stage and shows that stage again, with the restored script.
C26_Witness ==
    /\ Running
    /\ lastOp = <<"mount", "restored">>
    /\ step = "script"
    /\ script \in {Some(GoodScript),
                   Some([hook |-> "Amazing!", body |-> "It works.", cta |-> "undefined"])}

\* C27: the loading flag tells whether a transition is in flight: it is true
\* while some handler invocation waits for its backend calls, and false once
\* none does.
C27_LoadingTracksTransitions ==
    Running => (loading <=> Active > 0)

====
